---- MODULE Spec2Model ----
(***************************************************************************)
(* Route-Planner: RouteMetricsCalculator.calculate as a state machine.     *)
(*                                                                         *)
(* Numbers.  The program computes on Python floats (IEEE 754 binary64,     *)
(* round to nearest, ties to even, gradual underflow).  The model keeps    *)
(* that arithmetic at a reduced width: a number is a multiple n / Unit of  *)
(* the smallest positive number 1 / Unit = 2^-FracBits, stored as the      *)
(* integer n, and every operation rounds its exact result to Precision     *)
(* significant bits (binary64: Precision = 53, FracBits = 1074).           *)
(***************************************************************************)
EXTENDS Integers, Sequences, FiniteSets, TLC

VARIABLES
    speed_mph, max_driving_hours, break_duration,      \* self.* (configuration)
    loading_duration, unloading_duration,
    total_miles, deadhead_miles, remaining_hours,      \* arguments of calculate
    pc,                                                \* position in calculate
    error,                                             \* message of the ValueError raised
    loaded_miles, activities, current_time,            \* locals of calculate
    miles_driven, hours_until_break,
    total_driving_time, total_break_time, miles_remaining,
    metrics                                            \* the RouteMetrics returned

config == <<speed_mph, max_driving_hours, break_duration,
            loading_duration, unloading_duration>>
args   == <<total_miles, deadhead_miles, remaining_hours>>
locals == <<loaded_miles, activities, current_time, miles_driven,
            hours_until_break, total_driving_time, total_break_time,
            miles_remaining>>
vars   == <<config, args, pc, error, locals, metrics>>

---------------------------------------------------------------------------
(* Bounds of the model *)

Precision == 3      \* significant bits of a number
FracBits  == 2      \* the smallest positive number is 2^-FracBits
MaxHours  == 2      \* max_driving_hours ranges over 1, 1.5, .. MaxHours
MaxMiles  == 6      \* total_miles and deadhead_miles range over -1..MaxMiles

RECURSIVE Pow2(_)
Pow2(k) == IF k <= 0 THEN 1 ELSE 2 * Pow2(k - 1)

\* the number of bits of n >= 0
RECURSIVE BitLength(_)
BitLength(n) == IF n = 0 THEN 0 ELSE 1 + BitLength(n \div 2)

Unit == Pow2(FracBits)

R(n)    == n * Unit                 \* the number n
Half(n) == n * (Unit \div 2)        \* the number n / 2

\* The float nearest to p / q (in units of 1 / Unit), for p >= 0, q > 0:
\* round to nearest, ties to even.  u is the spacing of the floats at p / q.
RoundNonNeg(p, q) ==
    LET u    == Pow2(BitLength(p \div q) - Precision)
        n    == p \div (q * u)
        rem  == p - n * q * u
        up   == \/ 2 * rem > q * u
                \/ 2 * rem = q * u /\ n % 2 = 1
    IN  (IF up THEN n + 1 ELSE n) * u

RoundSigned(p, q) ==
    IF p < 0 THEN 0 - RoundNonNeg(0 - p, q) ELSE RoundNonNeg(p, q)

\* the float nearest to p / q; the operands are bound once, as values
Round(p, q) ==
    CHOOSE r \in { RoundSigned(x, y) : x \in {p}, y \in {q} } : TRUE

\* x is a float
Representable(x) == Round(x, 1) = x

\* float +, -, *, /
Add(a, b) == Round(a + b, 1)
Sub(a, b) == Round(a - b, 1)
Mul(a, b) == Round(a * b, Unit)
Div(a, b) == Round(a * Unit, b)
Min(a, b) == IF a <= b THEN a ELSE b

---------------------------------------------------------------------------
(* class ActivityType *)

LOADING   == "Loading"
DRIVING   == "Driving"
BREAK     == "Break (10-hour rest)"
UNLOADING == "Unloading"

\* @dataclass Activity
Activity(type, start, dur, mi, note) ==
    [activity_type |-> type, start_time |-> start, duration |-> dur,
     miles |-> mi, notes |-> note]

\* Activity.end_time
end_time(a) == Add(a.start_time, a.duration)

\* @dataclass RouteMetrics
RouteMetrics(tm, dm, lm, tdt, tbt, tlut, tt, acts) ==
    [total_miles |-> tm, deadhead_miles |-> dm, loaded_miles |-> lm,
     total_driving_time |-> tdt, total_break_time |-> tbt,
     total_load_unload_time |-> tlut, total_time |-> tt, activities |-> acts]

NoMetrics == RouteMetrics(0, 0, 0, 0, 0, 0, 0, <<>>)

---------------------------------------------------------------------------
(* RouteMetricsCalculator.__init__: the configurations of the model *)

Speeds             == { Half(1), R(1), R(3) }
MaxDrivingHours    == { Half(h) : h \in 2..(2 * MaxHours) }
BreakDurations     == { R(1), R(10) }
LoadingDurations   == { 0, Half(3) }
UnloadingDurations == { R(1) }

\* the arguments a caller may pass: whole miles, and every float of hours up
\* to one step past MaxHours
MilesArgs == { x \in { R(m) : m \in -1..MaxMiles } : Representable(x) }
HoursArgs == { x \in -1..(R(MaxHours) + 1) : Representable(x) }

Init ==
    /\ speed_mph \in { x \in Speeds : Representable(x) }
    /\ max_driving_hours \in { x \in MaxDrivingHours : Representable(x) }
    /\ break_duration \in { x \in BreakDurations : Representable(x) }
    /\ loading_duration \in { x \in LoadingDurations : Representable(x) }
    /\ unloading_duration \in { x \in UnloadingDurations : Representable(x) }
    /\ total_miles = 0 /\ deadhead_miles = 0 /\ remaining_hours = 0
    /\ pc = "idle"
    /\ error = ""
    /\ loaded_miles = 0 /\ activities = <<>> /\ current_time = 0
    /\ miles_driven = 0 /\ hours_until_break = 0
    /\ total_driving_time = 0 /\ total_break_time = 0 /\ miles_remaining = 0
    /\ metrics = NoMetrics

---------------------------------------------------------------------------
(* calculate: validation, lines 145-154 *)

\* the deadhead check is made before the sign checks
ValidationError_Reordered(tm, dm, rh) ==
    IF dm > tm THEN "Deadhead miles cannot exceed total miles"
    ELSE IF tm < 0 THEN "Total miles cannot be negative"
    ELSE IF dm < 0 THEN "Deadhead miles cannot be negative"
    ELSE IF rh < 0 THEN "Remaining hours cannot be negative"
    ELSE IF rh > max_driving_hours THEN "Remaining hours cannot exceed max driving hours"
    ELSE ""

ValidationError(tm, dm, rh) ==
    IF tm < 0 THEN "Total miles cannot be negative"
    ELSE IF dm < 0 THEN "Deadhead miles cannot be negative"
    ELSE IF dm > tm THEN "Deadhead miles cannot exceed total miles"
    ELSE IF rh < 0 THEN "Remaining hours cannot be negative"
    ELSE IF rh > max_driving_hours THEN "Remaining hours cannot exceed max driving hours"
    ELSE ""

\* calculate(tm, dm, rh) raises ValueError
Raise(tm, dm, rh) ==
    /\ pc = "idle"
    /\ ValidationError(tm, dm, rh) # ""
    /\ total_miles' = tm /\ deadhead_miles' = dm /\ remaining_hours' = rh
    /\ error' = ValidationError(tm, dm, rh)
    /\ pc' = "raised"
    /\ UNCHANGED <<config, locals, metrics>>

\* calculate(tm, dm, rh) passes validation: lines 156-175
Begin(tm, dm, rh) ==
    /\ pc = "idle"
    /\ ValidationError(tm, dm, rh) = ""
    /\ total_miles' = tm /\ deadhead_miles' = dm /\ remaining_hours' = rh
    /\ loaded_miles' = Sub(tm, dm)
    /\ activities' = <<Activity(LOADING, 0, loading_duration, 0,
                                "Loading cargo at origin")>>
    /\ current_time' = Add(0, loading_duration)
    /\ miles_driven' = 0
    /\ hours_until_break' = rh
    /\ total_driving_time' = 0
    /\ total_break_time' = 0
    /\ miles_remaining' = tm
    /\ pc' = "loop"
    /\ UNCHANGED <<config, error, metrics>>

---------------------------------------------------------------------------
(* calculate: the driving loop, lines 177-219 *)

\* line 179
max_miles_before_break(hub) == Mul(hub, speed_mph)

\* line 180
miles_this_segment(mr, hub) == Min(mr, max_miles_before_break(hub))

\* line 181
segment_duration(ms) == Div(ms, speed_mph)

\* a segment that ends exactly at the deadhead boundary counts as straddling it
segment_note_Strict(md, dm, ms) ==
    IF md < dm
    THEN LET deadhead_remaining == Sub(dm, md)
         IN  IF ms < deadhead_remaining
             THEN "Deadhead (empty)"
             ELSE "Deadhead + Loaded"
    ELSE "Loaded haul"

\* lines 184-192
segment_note(md, dm, ms) ==
    IF md < dm
    THEN LET deadhead_remaining == Sub(dm, md)
         IN  IF ms <= deadhead_remaining
             THEN "Deadhead (empty)"
             ELSE "Deadhead + Loaded"
    ELSE "Loaded haul"

\* line 209, evaluated on the values updated by lines 204 and 206
break_needed(hub, mr) == hub <= 0 /\ mr > 0

\* the clock is not advanced over the break
clock_after_break_Forgotten(t) == t

\* line 217
clock_after_break(t) == Add(t, break_duration)

\* the break is not added to total_break_time
break_time_after_break_Forgotten(tbt) == tbt

\* line 218
break_time_after_break(tbt) == Add(tbt, break_duration)

\* the window after a break is half an hour
hours_after_break_HalfHour == Half(1)

\* line 219
hours_after_break == max_driving_hours

\* No schedule that the model returns is longer than this; LoopBody stops
\* there so that a loop that never ends has finitely many states.
MaxActivities == 4 * MaxMiles + 4

\* the loop is entered with no miles left
loop_continues_Inclusive(mr) == mr >= 0

\* line 177
loop_continues(mr) == mr > 0

\* one iteration of `while miles_remaining > 0`
LoopBody ==
    /\ pc = "loop"
    /\ loop_continues(miles_remaining)
    /\ Len(activities) < MaxActivities
    /\ LET ms   == miles_this_segment(miles_remaining, hours_until_break)
           sd   == segment_duration(ms)
           note == segment_note(miles_driven, deadhead_miles, ms)
           drv  == Activity(DRIVING, current_time, sd, ms, note)
           t1   == Add(current_time, sd)
           mr1  == Sub(miles_remaining, ms)
           hub1 == Sub(hours_until_break, sd)
           brk  == Activity(BREAK, t1, break_duration, 0,
                            "Mandatory 10-hour rest")
       IN  /\ miles_driven' = Add(miles_driven, ms)
           /\ miles_remaining' = mr1
           /\ total_driving_time' = Add(total_driving_time, sd)
           /\ IF break_needed(hub1, mr1)
              THEN /\ activities' = activities \o <<drv, brk>>
                   /\ current_time' = clock_after_break(t1)
                   /\ total_break_time' = break_time_after_break(total_break_time)
                   /\ hours_until_break' = hours_after_break
              ELSE /\ activities' = Append(activities, drv)
                   /\ current_time' = t1
                   /\ total_break_time' = total_break_time
                   /\ hours_until_break' = hub1
    /\ UNCHANGED <<config, args, pc, error, loaded_miles, metrics>>

\* the loop exits: lines 221-242
Finish ==
    /\ pc = "loop"
    /\ ~loop_continues(miles_remaining)
    /\ LET unl  == Activity(UNLOADING, current_time, unloading_duration, 0,
                            "Unloading cargo at destination")
           acts == Append(activities, unl)
           t1   == Add(current_time, unloading_duration)
           total_load_unload_time == Add(loading_duration, unloading_duration)
       IN  /\ activities' = acts
           /\ current_time' = t1
           /\ metrics' = RouteMetrics(total_miles, deadhead_miles, loaded_miles,
                                      total_driving_time, total_break_time,
                                      total_load_unload_time, t1, acts)
    /\ pc' = "returned"
    /\ UNCHANGED <<config, args, error, loaded_miles, miles_driven,
                   hours_until_break, total_driving_time, total_break_time,
                   miles_remaining>>

Next ==
    \/ \E tm \in MilesArgs, dm \in MilesArgs, rh \in HoursArgs : Raise(tm, dm, rh)
    \/ \E tm \in MilesArgs, dm \in MilesArgs, rh \in HoursArgs : Begin(tm, dm, rh)
    \/ LoopBody
    \/ Finish

Spec == Init /\ [][Next]_vars

\* calculate runs to its end once called
FairSpec == Spec /\ WF_vars(LoopBody) /\ WF_vars(Finish)

---------------------------------------------------------------------------
(* Reading a schedule *)

Returned == pc = "returned"
Sched    == metrics.activities

Kind(acts, i) == acts[i].activity_type

Indices(acts, type) == { i \in 1..Len(acts) : Kind(acts, i) = type }

\* the sum of the durations of the first n activities of the given kinds,
\* added as floats in list order
RECURSIVE SumDur(_, _, _)
SumDur(acts, types, n) ==
    IF n = 0 THEN 0
    ELSE IF Kind(acts, n) \in types
         THEN Add(SumDur(acts, types, n - 1), acts[n].duration)
         ELSE SumDur(acts, types, n - 1)

AllKinds == {LOADING, DRIVING, BREAK, UNLOADING}

---------------------------------------------------------------------------
(* C1 *)

\* C1: the returned activity list is a gapless, non-overlapping timeline:
\* the first activity starts at time 0 and every activity ends exactly when
\* the next one starts.
C1_Timeline ==
    Returned =>
        /\ Sched[1].start_time = 0
        /\ \A i \in 1..(Len(Sched) - 1) :
               end_time(Sched[i]) = Sched[i + 1].start_time

\* a returned schedule with two breaks and three driving segments
C1_Witness ==
    /\ Returned
    /\ Cardinality(Indices(Sched, BREAK)) = 2
    /\ Cardinality(Indices(Sched, DRIVING)) = 3
    /\ loading_duration > 0

---------------------------------------------------------------------------
(* C2 *)

\* the five conditions of the claim, in its order, with their messages
C2_Checks ==
    << <<total_miles < 0,     "Total miles cannot be negative">>,
       <<deadhead_miles < 0,  "Deadhead miles cannot be negative">>,
       <<deadhead_miles > total_miles,
                              "Deadhead miles cannot exceed total miles">>,
       <<remaining_hours < 0, "Remaining hours cannot be negative">>,
       <<remaining_hours > max_driving_hours,
                              "Remaining hours cannot exceed max driving hours">> >>

C2_Violated == { i \in 1..Len(C2_Checks) : C2_Checks[i][1] }

C2_First == CHOOSE i \in C2_Violated : \A j \in C2_Violated : i <= j

\* C2: a call fails, with no activity emitted and no result, exactly when one
\* of the five conditions holds, and the error reported is that of the first
\* condition violated in the order total_miles < 0, deadhead_miles < 0,
\* deadhead_miles > total_miles, remaining_hours < 0,
\* remaining_hours > max_driving_hours.
C2_Validation ==
    pc # "idle" =>
        /\ (pc = "raised") <=> (C2_Violated # {})
        /\ pc = "raised" =>
              /\ error = C2_Checks[C2_First][2]
              /\ activities = <<>>
              /\ metrics = NoMetrics
        /\ pc # "raised" => error = "" /\ Len(activities) >= 1

\* total_miles < 0 together with deadhead_miles > total_miles reports
\* "total miles negative"
C2_Witness ==
    /\ pc = "raised"
    /\ total_miles < 0
    /\ deadhead_miles > total_miles
    /\ remaining_hours > max_driving_hours
    /\ error = "Total miles cannot be negative"

---------------------------------------------------------------------------
(* C3 *)

\* C3: the kinds of a returned schedule are Loading, then nothing or
\* Driving (Break Driving)*, then Unloading: one Loading, first; one
\* Unloading, last; every Break directly between two Driving activities.
C3_Shape ==
    Returned =>
        LET n == Len(Sched) IN
        /\ n >= 2
        /\ Kind(Sched, 1) = LOADING
        /\ Kind(Sched, n) = UNLOADING
        /\ Indices(Sched, LOADING) = {1}
        /\ Indices(Sched, UNLOADING) = {n}
        /\ \A i \in 2..(n - 1) :
               Kind(Sched, i) = IF i % 2 = 0 THEN DRIVING ELSE BREAK
        /\ n = 2 \/ Kind(Sched, n - 1) = DRIVING
        /\ \A i \in Indices(Sched, BREAK) :
               /\ 1 < i /\ i < n
               /\ Kind(Sched, i - 1) = DRIVING
               /\ Kind(Sched, i + 1) = DRIVING

---------------------------------------------------------------------------
(* C4 *)

\* C4: the reported totals agree with the returned activity list:
\* total_driving_time is the sum of the Driving durations, total_break_time
\* the sum of the Break durations, total_load_unload_time is
\* loading_duration + unloading_duration whatever the trip, and total_time
\* is both the end of the last activity and the sum of all durations.
C4_Totals ==
    Returned =>
        LET n == Len(Sched) IN
        /\ metrics.total_driving_time = SumDur(Sched, {DRIVING}, n)
        /\ metrics.total_break_time = SumDur(Sched, {BREAK}, n)
        /\ metrics.total_load_unload_time = Add(loading_duration, unloading_duration)
        /\ metrics.total_time = end_time(Sched[n])
        /\ metrics.total_time = SumDur(Sched, AllKinds, n)

\* a returned schedule with breaks and several driving segments
C4_Witness ==
    /\ Returned
    /\ Cardinality(Indices(Sched, BREAK)) >= 2
    /\ metrics.total_break_time > 0
    /\ metrics.total_driving_time > 0
    /\ loading_duration # unloading_duration

---------------------------------------------------------------------------
(* C5 *)

\* the driving window open when activity i of the schedule starts
C5_Window(i) ==
    IF Kind(Sched, i - 1) = BREAK THEN max_driving_hours ELSE remaining_hours

\* the hours driven in activities i..j, as a real number
RECURSIVE C5_Hours(_, _)
C5_Hours(i, j) ==
    IF j < i THEN 0
    ELSE C5_Hours(i, j - 1)
         + (IF Kind(Sched, j) = DRIVING THEN Sched[j].duration ELSE 0)

\* no Break lies in i..j
C5_NoBreak(i, j) == \A k \in i..j : Kind(Sched, k) # BREAK

\* C5: no Driving activity exceeds the window available when it starts: the
\* first one lasts at most remaining_hours, one that follows a Break at most
\* max_driving_hours, so that no stretch of driving without a Break is
\* longer than max_driving_hours.
C5_DrivingWindow ==
    Returned =>
        LET n == Len(Sched) IN
        /\ Kind(Sched, 2) = DRIVING => Sched[2].duration <= remaining_hours
        /\ \A i \in Indices(Sched, DRIVING) :
               Kind(Sched, i - 1) = BREAK =>
                   Sched[i].duration <= max_driving_hours
        /\ \A i \in 1..n : \A j \in i..n :
               C5_NoBreak(i, j) => C5_Hours(i, j) <= max_driving_hours

---------------------------------------------------------------------------
(* C6 *)

\* ceil(a / b) for a >= 0, b > 0
C6_Ceil(a, b) == (a + b - 1) \div b

\* the formula over the real numbers that the arguments denote; the miles
\* are in units of 1 / (Unit * Unit)
C6_BreaksExact ==
    LET miles == total_miles * Unit
        first == remaining_hours * speed_mph
        full  == max_driving_hours * speed_mph
    IN  IF miles <= first THEN 0 ELSE C6_Ceil(miles - first, full)

\* the formula evaluated in float arithmetic, as the expression is written
C6_BreaksFloat ==
    LET first == Mul(remaining_hours, speed_mph)
        full  == Mul(max_driving_hours, speed_mph)
    IN  IF total_miles <= first THEN 0
        ELSE C6_Ceil(Div(Sub(total_miles, first), full), Unit)

\* C6: the number of Break activities is 0 when
\* total_miles <= remaining_hours * speed_mph and otherwise
\* ceil((total_miles - remaining_hours * speed_mph) /
\*      (max_driving_hours * speed_mph)),
\* and total_break_time is that number times break_duration.  The formula
\* and the product are read either over the reals or in float arithmetic.
C6_BreakCount ==
    Returned =>
        LET breaks == Cardinality(Indices(Sched, BREAK)) IN
        /\ breaks \in { C6_BreaksExact, C6_BreaksFloat }
        /\ metrics.total_break_time \in
               { breaks * break_duration, Mul(R(breaks), break_duration) }

---------------------------------------------------------------------------
(* C7 *)

\* C7: with total_miles = 0 the loop body never runs, and the schedule
\* returned is Loading, Unloading and nothing else: no driving time, no
\* break time, total_time = loading_duration + unloading_duration.
C7_ZeroMiles ==
    total_miles = 0 =>
        /\ pc = "loop" =>
              /\ Len(activities) = 1
              /\ ~ENABLED LoopBody
        /\ Returned =>
              /\ Len(Sched) = 2
              /\ Kind(Sched, 1) = LOADING
              /\ Kind(Sched, 2) = UNLOADING
              /\ metrics.total_driving_time = 0
              /\ metrics.total_break_time = 0
              /\ metrics.total_time = Add(loading_duration, unloading_duration)

\* calculate(0, 0, 0) has returned
C7_Witness ==
    /\ Returned
    /\ total_miles = 0 /\ deadhead_miles = 0 /\ remaining_hours = 0
    /\ loading_duration > 0

---------------------------------------------------------------------------
(* C8 *)

\* the miles of the Driving activities among the first n activities, added
\* as floats in list order
RECURSIVE SumMiles(_, _)
SumMiles(acts, n) ==
    IF n = 0 THEN 0
    ELSE IF Kind(acts, n) = DRIVING
         THEN Add(SumMiles(acts, n - 1), acts[n].miles)
         ELSE SumMiles(acts, n - 1)

\* the note of the spec's first-match rule
C8_SpecNote(md, ms) ==
    IF md + ms <= deadhead_miles THEN "Deadhead (empty)"
    ELSE IF md < deadhead_miles THEN "Deadhead + Loaded"
    ELSE "Loaded haul"

\* the rule with its first test made only inside the deadhead portion, and
\* on the deadhead left: segment_miles <= deadhead_miles - miles_driven
C8_AmendedNote(md, ms) ==
    IF md < deadhead_miles /\ ms <= Sub(deadhead_miles, md)
    THEN "Deadhead (empty)"
    ELSE IF md < deadhead_miles THEN "Deadhead + Loaded"
    ELSE "Loaded haul"

\* C8 as claimed: every Driving activity carries the note of the spec's
\* first-match rule applied to the miles driven before it and its own miles,
\* for all accepted inputs, deadhead_miles = 0 and remaining_hours = 0
\* included.
C8_NoteAsClaimed ==
    Returned =>
        \A i \in Indices(Sched, DRIVING) :
            Sched[i].notes = C8_SpecNote(SumMiles(Sched, i - 1), Sched[i].miles)

\* C8 as amended: every Driving activity carries "Deadhead (empty)" if
\* miles_driven < deadhead_miles and
\* segment_miles <= deadhead_miles - miles_driven, otherwise
\* "Deadhead + Loaded" if miles_driven < deadhead_miles, otherwise
\* "Loaded haul"; so the 0-mile segment of remaining_hours = 0 is a
\* "Loaded haul" when deadhead_miles = 0.
C8_NoteAmended ==
    Returned =>
        \A i \in Indices(Sched, DRIVING) :
            LET md == SumMiles(Sched, i - 1)
                ms == Sched[i].miles
            IN  /\ Sched[i].notes = C8_AmendedNote(md, ms)
                /\ (deadhead_miles = 0 /\ remaining_hours = 0 /\ i = 2) =>
                       ms = 0 /\ Sched[i].notes = "Loaded haul"

\* a schedule with a segment inside the deadhead portion, one that straddles
\* the boundary, and a loaded one
C8_Witness ==
    /\ Returned
    /\ \E i, j, k \in Indices(Sched, DRIVING) :
          /\ Sched[i].notes = "Deadhead (empty)"
          /\ Sched[j].notes = "Deadhead + Loaded"
          /\ SumMiles(Sched, j - 1) < deadhead_miles
          /\ SumMiles(Sched, j) > deadhead_miles
          /\ Sched[k].notes = "Loaded haul"

---------------------------------------------------------------------------
(* C9 *)

C9_NumBreaks == Cardinality(Indices(Sched, BREAK))

\* breaks <= total_miles / (max_driving_hours * speed_mph) + extra, the
\* product read over the reals, in units of 1 / (Unit * Unit)
C9_WithinExact(breaks, extra) ==
    (breaks - extra) * (max_driving_hours * speed_mph) <= total_miles * Unit

\* the same with the product as the float the code computes at line 179
C9_WithinFloat(breaks, extra) ==
    (breaks - extra) * Mul(max_driving_hours, speed_mph) <= total_miles

\* C9 as claimed: the number of Break activities is at most
\* total_miles / (max_driving_hours * speed_mph), also when remaining_hours
\* is smaller than max_driving_hours.
C9_BoundAsClaimed ==
    Returned =>
        \/ C9_WithinExact(C9_NumBreaks, 0)
        \/ C9_WithinFloat(C9_NumBreaks, 0)

\* C9 as amended: the number of Break activities is at most
\* total_miles / (max_driving_hours * speed_mph) + 2.
C9_BoundAmended ==
    Returned =>
        /\ C9_WithinExact(C9_NumBreaks, 2)
        /\ C9_WithinFloat(C9_NumBreaks, 2)

\* a short first window costs a Break more than total_miles alone allows
C9_Witness ==
    /\ Returned
    /\ remaining_hours < max_driving_hours
    /\ C9_NumBreaks >= 2
    /\ ~C9_WithinExact(C9_NumBreaks, 0)
    /\ ~C9_WithinFloat(C9_NumBreaks, 0)

---------------------------------------------------------------------------
(* C10 *)

\* an iteration that starts with hours_until_break > 0 drives a positive
\* number of miles
C10_Progress ==
    (pc = "loop" /\ loop_continues(miles_remaining) /\ hours_until_break > 0)
        => (miles_remaining' < miles_remaining)

\* the call has returned: no miles remain and Unloading ends the schedule
C10_Done ==
    /\ Returned
    /\ miles_remaining = 0
    /\ Kind(Sched, Len(Sched)) = UNLOADING

\* C10: for every accepted input, remaining_hours = 0 included, the driving
\* loop terminates: miles_remaining reaches 0, Unloading is emitted and a
\* result is returned; an iteration that starts with hours_until_break > 0
\* decreases miles_remaining by a strictly positive amount.
C10_Terminates ==
    /\ (pc = "loop") ~> C10_Done
    /\ [][C10_Progress]_vars

---------------------------------------------------------------------------
(* C11 *)

\* the miles of the Driving activities among the first n activities, added
\* over the reals
RECURSIVE C11_ExactMiles(_, _)
C11_ExactMiles(acts, n) ==
    IF n = 0 THEN 0
    ELSE C11_ExactMiles(acts, n - 1)
         + (IF Kind(acts, n) = DRIVING THEN acts[n].miles ELSE 0)

\* the Driving miles sum to total_miles, added as floats in list order or
\* over the reals
C11_MilesSum ==
    \/ SumMiles(Sched, Len(Sched)) = total_miles
    \/ C11_ExactMiles(Sched, Len(Sched)) = total_miles

\* total_driving_time is total_miles / speed_mph, the quotient taken in
\* float arithmetic or over the reals
C11_DrivingTime ==
    \/ metrics.total_driving_time = Div(total_miles, speed_mph)
    \/ metrics.total_driving_time * speed_mph = total_miles * Unit

\* only Driving activities cover miles
C11_OnlyDriving ==
    \A i \in 1..Len(Sched) : Kind(Sched, i) # DRIVING => Sched[i].miles = 0

\* loaded_miles is total_miles - deadhead_miles and is not negative
C11_Loaded ==
    /\ metrics.loaded_miles \in
           { Sub(total_miles, deadhead_miles), total_miles - deadhead_miles }
    /\ metrics.loaded_miles >= 0

\* C11: miles are conserved: the miles of the Driving activities sum to
\* exactly total_miles, every Loading, Break and Unloading activity has 0
\* miles, loaded_miles is total_miles - deadhead_miles and is not negative,
\* and total_driving_time is total_miles / speed_mph.
C11_Conserved ==
    Returned =>
        /\ C11_MilesSum
        /\ C11_OnlyDriving
        /\ C11_Loaded
        /\ C11_DrivingTime

---------------------------------------------------------------------------
(* C12 *)

\* activity i of the schedule is a Driving activity of 0 miles and 0 hours
C12_Empty(i) ==
    /\ Kind(Sched, i) = DRIVING
    /\ Sched[i].miles = 0
    /\ Sched[i].duration = 0

\* with remaining_hours = 0 and miles to drive the schedule starts Loading,
\* Driving (0 miles, 0 hours), Break, and then drives
C12_ZeroHoursStart ==
    (remaining_hours = 0 /\ total_miles > 0) =>
        /\ Len(Sched) >= 5
        /\ Kind(Sched, 1) = LOADING
        /\ C12_Empty(2)
        /\ Kind(Sched, 3) = BREAK
        /\ Kind(Sched, 4) = DRIVING
        /\ Sched[4].miles > 0

\* an empty Driving activity is emitted in that situation only
C12_OnlyThen ==
    (\E i \in 1..Len(Sched) : C12_Empty(i)) =>
        (remaining_hours = 0 /\ total_miles > 0)

\* with remaining_hours > 0 every Driving activity covers miles and takes time
C12_Positive ==
    remaining_hours > 0 =>
        \A i \in Indices(Sched, DRIVING) :
            Sched[i].miles > 0 /\ Sched[i].duration > 0

\* every Driving activity but the first covers miles
C12_LaterMiles ==
    \A i \in Indices(Sched, DRIVING) : i > 2 => Sched[i].miles > 0

\* C12: a Driving activity with 0 miles and 0 duration is emitted in exactly
\* one situation, remaining_hours = 0 with total_miles > 0, where the
\* schedule starts Loading, Driving (0 miles, 0 duration), Break and only
\* then drives; with remaining_hours > 0 every Driving activity has
\* miles > 0 and duration > 0, and every Driving activity other than the
\* first has miles > 0.
C12_EmptyDriving ==
    Returned =>
        /\ C12_ZeroHoursStart
        /\ C12_OnlyThen
        /\ C12_Positive
        /\ C12_LaterMiles

====
